---- MODULE Spec2Model ----
(***************************************************************************)
(* WeatherNow backend: the weather service (getCurrentWeather,             *)
(* refreshWeather, checkRefreshEligibility, fetchWeatherFromAPI), the      *)
(* WeatherCache singleton (get, set, last-refresh map, clear, periodic     *)
(* cleanup) and the two controller handlers that call them.                *)
(*                                                                         *)
(* Time is Date.now() in milliseconds.  Temperatures read from upstream    *)
(* are carried in 1/50 degree (so that C * 9 / 5 + 32 is exact); the       *)
(* temperature of a snapshot, after toFixed(1), is carried in 1/10 degree. *)
(***************************************************************************)
EXTENDS Integers, Sequences, FiniteSets, Bags, TLC

VARIABLES
    now,               \* the wall clock, Date.now()
    apiKey,            \* config.weather.apiKey is set
    cache,             \* WeatherCache.cache: key -> [data, expiresAt]
    lastRefreshTimes,  \* WeatherCache.lastRefreshTimes: location -> instant
    inflight,          \* bag of the handlers suspended at `await axios.get`
    nreq,              \* number of requests received
    budget,            \* number of requests one behaviour handles
    last,              \* the handler that ran in the last step and its answer
    stored,            \* history: per key, the last snapshot set() since clear(),
                       \* the instant of that set() and the reading it was built from
    issued,            \* history (SpecHistory only): per location, the instant of
                       \* the last refresh request that passed the gate, since clear()
    twin,              \* (SpecTwin only) WeatherCache.cache of the same run of the
                       \* program in which the cleanup timer never fires
    twinObs,           \* (SpecTwin only) the last handler's get, compared in the two runs
    attempt            \* history (SpecAttempts only): per key, how the most recent
                       \* fetch attempt ended, since clear()

vars ==
    <<now, apiKey, cache, lastRefreshTimes, inflight, nreq, budget, last, stored,
      issued, twin, twinObs, attempt>>

-----------------------------------------------------------------------------
(* Bounds of the model *)

MaxReq == 2      \* requests handled in one behaviour
MaxDrift == 1    \* ms the clock may advance inside one synchronous block
T0 == 1          \* Date.now() when the process starts (always positive)

(* Program constants *)

TTL == 900000               \* WeatherCache.set: ttl
STALE_THRESHOLD == 3600000  \* getCurrentWeather: cacheAge > 3600000
RATE_LIMIT == 30000         \* checkRefreshEligibility: >= 30000
MIN_LOCATION == 1           \* z.string().min(1)
MAX_LOCATION == 50          \* z.string().max(50)
MIN_TEMP_C == -90           \* tempCelsius < -90
MAX_TEMP_C == 60            \* tempCelsius > 60
TempScale == 5 * 10         \* one degree, in 1/50: the /5 of the conversion, the tenth of toFixed(1)

-----------------------------------------------------------------------------
(* Inputs *)

Locations == {"A", "B"}
LocationInputs == Locations \cup {""}
Units == {"celsius", "fahrenheit"}

\* instants the clock is moved to: offsets around the three thresholds
Offsets == {RATE_LIMIT, TTL, TTL + 1, STALE_THRESHOLD + 1}
Instants == {T0 + d : d \in Offsets}

\* response.data.current.temp_c: a number (in 1/50 degree) or null
Num(v) == [isNull |-> FALSE, v |-> v]
Null == [isNull |-> TRUE, v |-> 0]
UpstreamTemps ==
    {Num(MIN_TEMP_C * TempScale - 5), Num(1015), Num(MAX_TEMP_C * TempScale + 5), Null}

\* what the awaited axios.get produces
UpstreamOutcomes ==
    {[kind |-> "error", temp_c |-> Null, name |-> ""],        \* rejects: network, timeout, HTTP status
     [kind |-> "no_current", temp_c |-> Null, name |-> ""]}   \* resolves without data.current
    \cup [kind : {"ok"}, temp_c : UpstreamTemps, name : {"City"}]

-----------------------------------------------------------------------------
(* weatherTypes.ts / weatherService *)

NoData ==
    [temperature |-> 0, unit |-> "", location |-> "", timestamp |-> "",
     status |-> "none", fetchedAt |-> 0]

\* mutant: the unit is left out of the key
cacheKey_NoUnit(location, unit) == location

cacheKey(location, unit) == location \o "_" \o unit

\* JavaScript ToNumber of temp_c: null is 0
ToNumber(t) == IF t.isNull THEN 0 ELSE t.v

celsiusToFahrenheit(celsius) == (celsius * 9) \div 5 + 32 * TempScale

\* Number.prototype.toFixed(1) then parseFloat: the nearest tenth (x is in 1/50, no ties)
ToFixed1(x) == (2 * x + 5) \div 10

Pad2(n) == IF n < 10 THEN "0" \o ToString(n) ELSE ToString(n)

FormatTimestamp(t) ==
    "Updated at " \o Pad2((t \div 3600000) % 24) \o ":" \o Pad2((t \div 60000) % 60)

-----------------------------------------------------------------------------
(* WeatherCache *)

EmptyMap == [k \in {} |-> 0]

Remove(m, key) == [k \in DOMAIN m \ {key} |-> m[k]]

\* mutant: an entry expires at expiresAt already
Expired_Inclusive(entry, t) == t >= entry.expiresAt

\* get: `Date.now() > entry.expiresAt`
Expired(entry, t) == t > entry.expiresAt

\* mutant: a default snapshot is returned for a key that is not in the map
CacheGetData_Default(c, key, t) ==
    IF key \notin DOMAIN c THEN [NoData EXCEPT !.status = "online"]
    ELSE IF Expired(c[key], t) THEN NoData
    ELSE c[key].data

\* get: the value returned (NoData stands for null)
CacheGetData(c, key, t) ==
    IF key \notin DOMAIN c THEN NoData
    ELSE IF Expired(c[key], t) THEN NoData
    ELSE c[key].data

\* mutant: a read of a live entry renews its expiry
CacheAfterGet_Touch(c, key, t) ==
    IF key \notin DOMAIN c THEN c
    ELSE IF Expired(c[key], t) THEN Remove(c, key)
    ELSE [c EXCEPT ![key].expiresAt = t + TTL]

\* mutant: get returns null for an expired entry but leaves it in the map
CacheAfterGet_KeepExpired(c, key, t) == c

\* get: the map after the call (an expired entry is deleted)
CacheAfterGet(c, key, t) ==
    IF key \in DOMAIN c /\ Expired(c[key], t) THEN Remove(c, key) ELSE c

\* get: the call finds an entry and deletes it as expired
Evicts(c, key, t) == key \in DOMAIN c /\ Expired(c[key], t)

\* mutant: set does not replace an entry that is already in the map
CacheSet_KeepExisting(c, key, data, t) ==
    IF key \in DOMAIN c THEN c
    ELSE [k \in DOMAIN c \cup {key} |->
             IF k = key THEN [data |-> data, expiresAt |-> t + TTL] ELSE c[k]]

\* set: called at instant t
CacheSet(c, key, data, t) ==
    [k \in DOMAIN c \cup {key} |->
        IF k = key THEN [data |-> data, expiresAt |-> t + TTL] ELSE c[k]]

\* mutant: the last-refresh instant is recorded per (location, unit)
RefreshKey_UnitScoped(location, unit) == cacheKey(location, unit)

\* the key of the last-refresh map for a fetch of (location, unit)
RefreshKey(location, unit) == location

\* mutant: recording a refresh overwrites the instant of every location
SetLastRefreshTime_AllLocations(m, location, timestamp) ==
    [k \in DOMAIN m \cup {location} |-> timestamp]

SetLastRefreshTime(m, location, timestamp) ==
    [k \in DOMAIN m \cup {location} |-> IF k = location THEN timestamp ELSE m[k]]

\* getLastRefreshTime: `get(location) || null`; 0 stands for null (a stored 0 is null too)
GetLastRefreshTime(m, location) ==
    IF location \in DOMAIN m THEN m[location] ELSE 0

\* mutant: the sweep also deletes the entries that expire at t
SweepCache_Inclusive(c, t) ==
    [k \in {k \in DOMAIN c : ~(t >= c[k].expiresAt)} |-> c[k]]

\* mutant: the sweep empties the map
SweepCache_All(c, t) == [k \in {} |-> c[k]]

\* the cleanup callback's loop, run at instant t
SweepCache(c, t) ==
    [k \in {k \in DOMAIN c : ~(t > c[k].expiresAt)} |-> c[k]]

-----------------------------------------------------------------------------
(* weatherService *)

\* checkRefreshEligibility at instant t
CheckRefreshEligibility(m, location, t) ==
    LET lastRefresh == GetLastRefreshTime(m, location)
    IN  IF lastRefresh = 0 THEN TRUE ELSE t - lastRefresh >= RATE_LIMIT

\* mutant: the label is computed against the wrong threshold
HitStatus_WrongThreshold(cacheAge) ==
    IF cacheAge > RATE_LIMIT THEN "outdated" ELSE "online"

\* getCurrentWeather: the label of a hit of age cacheAge
HitStatus(cacheAge) == IF cacheAge > STALE_THRESHOLD THEN "outdated" ELSE "online"

HitData(cachedData, t) ==
    [cachedData EXCEPT !.status = HitStatus(t - cachedData.fetchedAt)]

\* mutant: the status is assigned on the cached object itself, which is returned
ReturnCopy_InPlace(c, key, data) == [c EXCEPT ![key].data = data]

\* `{ ...cachedData, status }`: the caller gets a new object; the map after it
\* (the entry still refers to the object that was stored)
ReturnCopy(c, key, data) == c

\* fetchWeatherFromAPI, catch: the copy returned for a cached snapshot
FallbackData(cachedData) == [cachedData EXCEPT !.status = "offline"]

\* mutant: the key is not checked before the call
HasApiKey_Unchecked(key) == TRUE

\* fetchWeatherFromAPI: `if (!config.weather.apiKey) throw` is passed
HasApiKey(key) == key

\* fetchWeatherFromAPI: `tempCelsius < -90 || tempCelsius > 60` (null compares as 0)
OutOfRange(tempCelsius) ==
    \/ ToNumber(tempCelsius) < MIN_TEMP_C * TempScale
    \/ ToNumber(tempCelsius) > MAX_TEMP_C * TempScale

\* fetchWeatherFromAPI: the try block runs to its end with this response.
\* `temperature.toFixed` throws a TypeError when temperature is null, which it
\* is only for celsius (for fahrenheit the conversion has made it a number).
FetchSucceeds(out, unit) ==
    /\ out.kind = "ok"
    /\ ~OutOfRange(out.temp_c)
    /\ (unit = "fahrenheit" \/ ~out.temp_c.isNull)

UnitSymbol(unit) == IF unit = "celsius" THEN "°C" ELSE "°F"

\* fetchWeatherFromAPI: the snapshot built; tStamp is `new Date()`, tFetched `Date.now()`
BuildWeatherData(out, unit, tStamp, tFetched) ==
    LET temperature ==
            IF unit = "fahrenheit" THEN celsiusToFahrenheit(ToNumber(out.temp_c))
            ELSE out.temp_c.v
    IN  [temperature |-> ToFixed1(temperature),
         unit |-> UnitSymbol(unit),
         location |-> out.name,
         timestamp |-> FormatTimestamp(tStamp),
         status |-> "online",
         fetchedAt |-> tFetched]

-----------------------------------------------------------------------------
(* controller *)

\* the zod schema of both handlers
Valid(location, unit) ==
    /\ Len(location) >= MIN_LOCATION
    /\ Len(location) <= MAX_LOCATION
    /\ unit \in Units

\* the catch blocks of both handlers: the HTTP status of an error
ErrorStatus(code) ==
    IF code = "VALIDATION_ERROR" THEN 400
    ELSE IF code = "WEATHER_API_ERROR" THEN 502
    ELSE 500

\* mutant: a request joins the upstream call already in flight for the same
\* operation, location and unit
Suspend_Coalesced(b, req) == IF BagIn(req, b) THEN b ELSE b (+) SetToBag({req})

\* `await axios.get(...)`: the handler issues its own upstream call and is
\* suspended until it settles
Suspend(b, req) == b (+) SetToBag({req})

\* successive Date.now() readings of one synchronous block: non-decreasing,
\* starting at now, at most MaxDrift later at the end
Reads(n) ==
    {r \in [1..n -> now..(now + MaxDrift)] :
        /\ r[1] = now
        /\ \A i \in 1..(n - 1) : r[i] <= r[i + 1]}

\* `last` when the last step was no handler
NoLast ==
    [op |-> "none", step |-> "none", location |-> "", unit |-> "",
     outcome |-> "none", http |-> 0, data |-> NoData, source |-> "none",
     lookup |-> "none", lookupAt |-> 0, evicted |-> FALSE, gateAt |-> 0,
     prevIssued |-> 0,
     upstream |-> "none", temp_c |-> Null, at |-> 0]

Handled(op, step, location, unit, t) ==
    [NoLast EXCEPT !.op = op, !.step = step, !.location = location, !.unit = unit,
                   !.at = t]

\* fetchWeatherFromAPI's catch block and then the controller's, entered at instant
\* t with the map c; `upstream` is what failed; base is what is known of the request
Catch(base, c, t, upstream, temp_c) ==
    LET key == cacheKey(base.location, base.unit)
        cachedData == CacheGetData(c, key, t)
        b == [base EXCEPT !.lookupAt = t, !.upstream = upstream, !.temp_c = temp_c,
                          !.evicted = base.evicted \/ Evicts(c, key, t), !.at = t]
    IN  /\ cache' = IF cachedData # NoData
                    THEN ReturnCopy(CacheAfterGet(c, key, t), key,
                                    FallbackData(cachedData))
                    ELSE CacheAfterGet(c, key, t)
        /\ now' = t
        /\ IF cachedData # NoData
           THEN last' = [b EXCEPT !.outcome = "ok", !.http = 200,
                                  !.data = FallbackData(cachedData),
                                  !.source = "fallback", !.lookup = "hit"]
           ELSE last' = [b EXCEPT !.outcome = "upstream_error",
                                  !.http = ErrorStatus("WEATHER_API_ERROR"),
                                  !.lookup = "miss"]
        /\ UNCHANGED <<lastRefreshTimes, stored>>

\* GET /current: controller.getCurrentWeather and weatherService.getCurrentWeather,
\* up to the response or to the await of the upstream call
GetCurrentWeather(location, unit) ==
    /\ nreq < budget
    /\ nreq' = nreq + 1
    /\ UNCHANGED <<apiKey, budget, issued>>
    /\ IF ~Valid(location, unit)
       THEN /\ last' = [Handled("get", "request", location, unit, now) EXCEPT
                            !.outcome = "validation_error",
                            !.http = ErrorStatus("VALIDATION_ERROR")]
            /\ UNCHANGED <<now, cache, lastRefreshTimes, inflight, stored>>
       ELSE \E r \in Reads(2) :
            LET key == cacheKey(location, unit)
                cachedData == CacheGetData(cache, key, r[1])
                cache1 == CacheAfterGet(cache, key, r[1])
                base == [Handled("get", "request", location, unit, r[1]) EXCEPT
                             !.lookupAt = r[1], !.evicted = Evicts(cache, key, r[1])]
            IN  IF cachedData # NoData
                THEN /\ last' = [base EXCEPT !.outcome = "ok", !.http = 200,
                                     !.data = HitData(cachedData, r[2]),
                                     !.source = "hit", !.lookup = "hit", !.at = r[2]]
                     /\ cache' = ReturnCopy(cache1, key, HitData(cachedData, r[2]))
                     /\ now' = r[2]
                     /\ UNCHANGED <<lastRefreshTimes, inflight, stored>>
                ELSE IF HasApiKey(apiKey)
                THEN /\ r[2] = r[1]
                     /\ inflight' = Suspend(inflight, [op |-> "get",
                                                       location |-> location,
                                                       unit |-> unit])
                     /\ last' = [base EXCEPT !.outcome = "pending", !.lookup = "miss"]
                     /\ cache' = cache1
                     /\ now' = r[1]
                     /\ UNCHANGED <<lastRefreshTimes, stored>>
                ELSE /\ Catch(base, cache1, r[2], "no_api_key", Null)
                     /\ UNCHANGED inflight

\* POST /refresh: controller.refreshWeather, checkRefreshEligibility and
\* weatherService.refreshWeather, up to the response or to the await.
\* With track, the request is also entered in the history `issued`.
RefreshHandler(location, unit, track) ==
    /\ nreq < budget
    /\ nreq' = nreq + 1
    /\ UNCHANGED <<apiKey, budget>>
    /\ IF ~Valid(location, unit)
       THEN /\ last' = [Handled("refresh", "request", location, unit, now) EXCEPT
                            !.outcome = "validation_error",
                            !.http = ErrorStatus("VALIDATION_ERROR")]
            /\ UNCHANGED <<now, cache, lastRefreshTimes, inflight, stored, issued>>
       ELSE \E r \in Reads(2) :
            LET base == [Handled("refresh", "request", location, unit, r[1]) EXCEPT
                             !.gateAt = r[1],
                             !.prevIssued = GetLastRefreshTime(issued, location)]
            IN  IF ~CheckRefreshEligibility(lastRefreshTimes, location, r[1])
                THEN /\ r[2] = r[1]
                     /\ last' = [base EXCEPT !.outcome = "rate_limited", !.http = 429]
                     /\ now' = r[1]
                     /\ UNCHANGED <<cache, lastRefreshTimes, inflight, stored, issued>>
                ELSE /\ issued' = IF track
                                  THEN SetLastRefreshTime(issued, location, r[1])
                                  ELSE issued
                     /\ IF HasApiKey(apiKey)
                        THEN /\ r[2] = r[1]
                             /\ inflight' = Suspend(inflight, [op |-> "refresh",
                                                               location |-> location,
                                                               unit |-> unit])
                             /\ last' = [base EXCEPT !.outcome = "pending"]
                             /\ now' = r[1]
                             /\ UNCHANGED <<cache, lastRefreshTimes, stored>>
                        ELSE /\ Catch(base, cache, r[2], "no_api_key", Null)
                             /\ UNCHANGED inflight

RefreshWeather(location, unit) == RefreshHandler(location, unit, FALSE)

RefreshWeatherTracked(location, unit) == RefreshHandler(location, unit, TRUE)

\* the awaited axios.get settles with `out`: the rest of fetchWeatherFromAPI and
\* of the controller handler that called it.  The continuation may run at any
\* instant after the request (the 5 s timeout settles the call with an error; when
\* the event loop then runs the continuation is not bounded).
FetchComplete(req, out) ==
    /\ BagIn(req, inflight)
    /\ inflight' = inflight (-) SetToBag({req})
    /\ UNCHANGED <<apiKey, nreq, budget, issued>>
    /\ IF FetchSucceeds(out, req.unit)
       THEN \E r \in Reads(4) :
            LET weatherData == BuildWeatherData(out, req.unit, r[1], r[2])
                key == cacheKey(req.location, req.unit)
            IN  /\ cache' = CacheSet(cache, key, weatherData, r[3])
                /\ lastRefreshTimes' =
                       SetLastRefreshTime(lastRefreshTimes,
                                          RefreshKey(req.location, req.unit), r[4])
                /\ stored' = [k \in DOMAIN stored \cup {key} |->
                                 IF k = key
                                 THEN [data |-> weatherData, at |-> r[3],
                                       temp_c |-> out.temp_c]
                                 ELSE stored[k]]
                /\ last' = [Handled(req.op, "completion", req.location, req.unit, r[4])
                                EXCEPT !.outcome = "ok", !.http = 200,
                                       !.data = weatherData, !.source = "fetch",
                                       !.upstream = out.kind, !.temp_c = out.temp_c]
                /\ now' = r[4]
       ELSE Catch(Handled(req.op, "completion", req.location, req.unit, now),
                  cache, now, out.kind, out.temp_c)

\* the setInterval callback of startCleanupInterval
Sweep ==
    /\ cache' = SweepCache(cache, now)
    /\ last' = Handled("sweep", "none", "", "", now)
    /\ UNCHANGED <<now, apiKey, lastRefreshTimes, inflight, nreq, budget, stored,
                   issued>>

\* mutant: clear() empties the last-refresh map only
Clear_CacheKept ==
    /\ lastRefreshTimes' = EmptyMap
    /\ stored' = EmptyMap
    /\ issued' = EmptyMap
    /\ last' = Handled("clear", "none", "", "", now)
    /\ UNCHANGED <<now, apiKey, cache, inflight, nreq, budget>>

\* WeatherCache.clear
Clear ==
    /\ cache' = EmptyMap
    /\ lastRefreshTimes' = EmptyMap
    /\ stored' = EmptyMap
    /\ issued' = EmptyMap
    /\ last' = Handled("clear", "none", "", "", now)
    /\ UNCHANGED <<now, apiKey, inflight, nreq, budget>>

\* time passes (the clock is taken to be monotonic)
Tick(t) ==
    /\ t > now
    /\ now' = t
    /\ last' = NoLast
    /\ UNCHANGED <<apiKey, cache, lastRefreshTimes, inflight, nreq, budget, stored,
                   issued>>

\* `twinObs` before any get: nothing to compare
NoObs == [same |-> TRUE, swept |-> FALSE]

\* the run without the timer is not followed
TwinIdle == UNCHANGED <<twin, twinObs>>

\* the fetch attempts are not entered in the history
AttemptIdle == UNCHANGED attempt

\* the fetch attempt of this step, if any, is entered in the history: the try
\* block ran to its end, or the catch block ran
AttemptTrack ==
    LET key == cacheKey(last'.location, last'.unit)
        Enter(how) == [k \in DOMAIN attempt \cup {key} |->
                          IF k = key THEN how ELSE attempt[k]]
    IN  IF last'.op = "clear" THEN attempt' = EmptyMap
        ELSE IF last'.source = "fetch" THEN attempt' = Enter("ok")
        ELSE IF last'.upstream # "none" THEN attempt' = Enter("failed")
        ELSE attempt' = attempt

\* the handler of this step, run on `twin`: its get(key) at the instant the
\* handler read the clock, the answer it builds from it (the hit copy, the
\* fallback copy, or nothing: a miss goes to the upstream API or ends in an
\* error), and its set(key) when the fetch succeeds
TwinHandler ==
    LET key == cacheKey(last'.location, last'.unit)
        twinData == CacheGetData(twin, key, last'.lookupAt)
        twinAnswer ==
            IF twinData = NoData THEN NoData
            ELSE IF last'.step = "request" /\ last'.upstream = "none"
                 THEN HitData(twinData, last'.at)
                 ELSE FallbackData(twinData)
    IN  IF last'.lookup # "none"
        THEN /\ twin' = CacheAfterGet(twin, key, last'.lookupAt)
             /\ twinObs' = [same |-> twinObs.same /\ twinAnswer = last'.data,
                            swept |-> key \in DOMAIN twin /\ key \notin DOMAIN cache]
        ELSE IF last'.source = "fetch"
        THEN /\ twin' = CacheSet(twin, key, last'.data, cache'[key].expiresAt - TTL)
             /\ twinObs' = [twinObs EXCEPT !.swept = FALSE]
        ELSE /\ twin' = twin
             /\ twinObs' = [twinObs EXCEPT !.swept = FALSE]

\* clear() in both runs
TwinClear ==
    /\ twin' = EmptyMap
    /\ twinObs' = [twinObs EXCEPT !.swept = FALSE]

\* the process has started: both maps are empty, no request has come
Started ==
    /\ now = T0
    /\ apiKey \in BOOLEAN
    /\ cache = EmptyMap
    /\ lastRefreshTimes = EmptyMap
    /\ inflight = EmptyBag
    /\ nreq = 0
    /\ last = NoLast
    /\ stored = EmptyMap
    /\ issued = EmptyMap
    /\ twin = EmptyMap
    /\ twinObs = NoObs
    /\ attempt = EmptyMap

Init == Started /\ budget = MaxReq

Next ==
    \/ \E t \in Instants : Tick(t) /\ TwinIdle /\ AttemptIdle
    \/ \E l \in LocationInputs, u \in Units : GetCurrentWeather(l, u) /\ TwinIdle /\ AttemptIdle
    \/ \E l \in LocationInputs, u \in Units : RefreshWeather(l, u) /\ TwinIdle /\ AttemptIdle
    \/ \E req \in BagToSet(inflight), out \in UpstreamOutcomes :
           FetchComplete(req, out) /\ TwinIdle /\ AttemptIdle
    \/ Sweep /\ TwinIdle /\ AttemptIdle
    \/ Clear /\ TwinIdle /\ AttemptIdle

Spec == Init /\ [][Next]_vars

\* the same program, with the history of refresh requests kept in `issued`
NextHistory ==
    \/ \E t \in Instants : Tick(t) /\ TwinIdle /\ AttemptIdle
    \/ \E l \in LocationInputs, u \in Units : GetCurrentWeather(l, u) /\ TwinIdle /\ AttemptIdle
    \/ \E l \in LocationInputs, u \in Units : RefreshWeatherTracked(l, u) /\ TwinIdle /\ AttemptIdle
    \/ \E req \in BagToSet(inflight), out \in UpstreamOutcomes :
           FetchComplete(req, out) /\ TwinIdle /\ AttemptIdle
    \/ Sweep /\ TwinIdle /\ AttemptIdle
    \/ Clear /\ TwinIdle /\ AttemptIdle

SpecHistory == Init /\ [][NextHistory]_vars

\* the same program run twice on the same requests, upstream outcomes and clock:
\* in `cache` the cleanup timer fires, in `twin` it never does
NextTwin ==
    \/ \E t \in Instants : Tick(t) /\ TwinIdle /\ AttemptIdle
    \/ \E l \in LocationInputs, u \in Units : GetCurrentWeather(l, u) /\ TwinHandler /\ AttemptIdle
    \/ \E l \in LocationInputs, u \in Units : RefreshWeather(l, u) /\ TwinHandler /\ AttemptIdle
    \/ \E req \in BagToSet(inflight), out \in UpstreamOutcomes :
           FetchComplete(req, out) /\ TwinHandler /\ AttemptIdle
    \/ Sweep /\ TwinIdle /\ AttemptIdle
    \/ Clear /\ TwinClear /\ AttemptIdle

SpecTwin == Init /\ [][NextTwin]_vars

\* the same program handling one request more, all for one location and unit,
\* with the history of fetch attempts kept in `attempt`
OneLocation == {"A"}
OneUnit == {"celsius"}

InitAttempts == Started /\ budget = MaxReq + 1

NextAttempts ==
    \/ \E t \in Instants : Tick(t) /\ TwinIdle /\ AttemptTrack
    \/ \E l \in OneLocation, u \in OneUnit :
           GetCurrentWeather(l, u) /\ TwinIdle /\ AttemptTrack
    \/ \E l \in OneLocation, u \in OneUnit :
           RefreshWeather(l, u) /\ TwinIdle /\ AttemptTrack
    \/ \E req \in BagToSet(inflight), out \in UpstreamOutcomes :
           FetchComplete(req, out) /\ TwinIdle /\ AttemptTrack
    \/ Sweep /\ TwinIdle /\ AttemptTrack
    \/ Clear /\ TwinIdle /\ AttemptTrack

SpecAttempts == InitAttempts /\ [][NextAttempts]_vars

Keys == {cacheKey(l, u) : l \in Locations, u \in Units}

TypeOK ==
    /\ now \in Nat
    /\ nreq \in 0..budget
    /\ budget \in {MaxReq, MaxReq + 1}
    /\ DOMAIN cache \subseteq Keys
    /\ DOMAIN stored \subseteq Keys
    /\ DOMAIN lastRefreshTimes \subseteq Locations

-----------------------------------------------------------------------------
(* Properties.  `last` describes the handler that ran in the last step; a step
   of the clock resets it, so a state predicate on `last` speaks of the state
   right after that handler. *)

LastKey == cacheKey(last.location, last.unit)

\* the last step ran fetchWeatherFromAPI's catch block after an upstream failure
FetchFailed ==
    /\ last.op \in {"get", "refresh"}
    /\ last.upstream \in {"error", "no_current", "ok"}
    /\ last.source # "fetch"

\* C1: whenever a fetch for a key fails and an earlier fetch for that key succeeded
\* (no clear() since), the caller gets the last stored snapshot of the key with
\* status offline, however old that snapshot is and whether or not a sweep ran.
C1_OfflineFallbackIgnoresTTL ==
    (FetchFailed /\ LastKey \in DOMAIN stored) =>
        /\ last.outcome = "ok"
        /\ last.data = [stored[LastKey].data EXCEPT !.status = "offline"]

\* C2: a refresh request for a location issued less than 30 s after the previous
\* refresh request for it that passed the gate is rejected as RateLimited (429),
\* whether or not that one has completed or succeeded; issued 30 s or more after
\* it, it is not rejected.
C2_RateLimitBetweenRefreshes ==
    (last.op = "refresh" /\ last.step = "request" /\ last.prevIssued # 0) =>
        IF last.gateAt - last.prevIssued < RATE_LIMIT
        THEN last.outcome = "rate_limited" /\ last.http = 429
        ELSE last.outcome # "rate_limited"

\* C3: a getCurrentWeather served from the cache is labelled outdated exactly when
\* now - fetchedAt > 1 h, online otherwise, and never offline; its other fields
\* are those of the cached snapshot.
C3_StalenessLabel ==
    last.source = "hit" =>
        /\ last.data.status \in {"online", "outdated"}
        /\ last.data.status = "outdated" <=>
               last.at - last.data.fetchedAt > STALE_THRESHOLD
        /\ LastKey \in DOMAIN cache
        /\ last.data = [cache[LastKey].data EXCEPT !.status = last.data.status]

C3_Witness ==
    /\ last.source = "hit"
    /\ last.data.status = "online"
    /\ last.at - last.data.fetchedAt >= TTL

\* a handler has just called weatherCache.get for a key stored since the last clear()
LookedUpStored ==
    /\ last.lookup # "none"
    /\ LastKey \in DOMAIN stored

\* C4 as stated: get(key) returns the snapshot stored at t iff called strictly
\* before t + 15 min.
C4_Original ==
    LookedUpStored =>
        (last.lookup = "hit" <=> last.lookupAt < stored[LastKey].at + TTL)

\* C4, amended: get(key) returns the snapshot stored at t (no later store, no
\* clear()) iff called at an instant <= t + 15 min; from t + 15 min + 1 ms on it
\* returns absent.
C4_TTLRetention ==
    LookedUpStored =>
        /\ last.lookup = "hit" <=> last.lookupAt <= stored[LastKey].at + TTL
        /\ last.lookup = "hit" =>
               [last.data EXCEPT !.status = "online"] = stored[LastKey].data

C4_Witness ==
    /\ LookedUpStored
    /\ last.lookup = "hit"
    /\ last.lookupAt = stored[LastKey].at + TTL

\* the step ran the catch block (a failed fetch) for the key of last'
FailedFetchStep ==
    /\ last'.op \in {"get", "refresh"}
    /\ last'.upstream \notin {"none"}
    /\ last'.source # "fetch"

\* C5: a failed fetch with no entry for its key in the cache ends in an upstream
\* error (WEATHER_API_ERROR, 502) with no snapshot, and leaves the cache map and
\* the last-refresh map as they were.
C5_NoFallbackFailure ==
    [][(FailedFetchStep /\ cacheKey(last'.location, last'.unit) \notin DOMAIN cache) =>
          /\ last'.outcome = "upstream_error"
          /\ last'.http = 502
          /\ last'.data = NoData
          /\ cache' = cache
          /\ lastRefreshTimes' = lastRefreshTimes]_vars

C5_Witness ==
    /\ last.outcome = "upstream_error"
    /\ last.upstream = "error"
    /\ DOMAIN cache # {}

\* C6: a failed fetch answered from the cache returns the stored snapshot with
\* only its status changed, to offline; the entry (data, stored status,
\* expiresAt), the other entries and the last-refresh map are unchanged.
C6_FallbackUnmodified ==
    [][last'.source = "fallback" =>
          LET key == cacheKey(last'.location, last'.unit)
          IN  /\ key \in DOMAIN cache
              /\ last'.data.status = "offline"
              /\ last'.data.temperature = cache[key].data.temperature
              /\ last'.data.unit = cache[key].data.unit
              /\ last'.data.location = cache[key].data.location
              /\ last'.data.timestamp = cache[key].data.timestamp
              /\ last'.data.fetchedAt = cache[key].data.fetchedAt
              /\ cache' = cache
              /\ cache'[key].data.status = "online"
              /\ lastRefreshTimes' = lastRefreshTimes]_vars

C6_Witness ==
    /\ last.source = "fallback"
    /\ last.op = "refresh"
    /\ last.upstream = "error"

OtherUnit(unit) == IF unit = "celsius" THEN "fahrenheit" ELSE "celsius"

\* C7: a request for (L, u), whatever its outcome, leaves the entry of (L, other
\* unit) as it was (present or absent, same contents); a successful fetch of (L, u)
\* while (L, other unit) is cached leaves two distinct entries.
C7_UnitIndependence ==
    [][(last'.op \in {"get", "refresh"} /\ last'.location \in Locations) =>
          LET key == cacheKey(last'.location, last'.unit)
              other == cacheKey(last'.location, OtherUnit(last'.unit))
          IN  /\ other \in DOMAIN cache' <=> other \in DOMAIN cache
              /\ other \in DOMAIN cache => cache'[other] = cache[other]
              /\ (last'.source = "fetch" /\ other \in DOMAIN cache) =>
                     /\ key \in DOMAIN cache'
                     /\ key # other
                     /\ Cardinality({key, other} \cap DOMAIN cache') = 2]_vars

C7_Witness ==
    /\ last.source = "fetch"
    /\ \E l \in Locations :
          /\ cacheKey(l, "celsius") \in DOMAIN cache
          /\ cacheKey(l, "fahrenheit") \in DOMAIN cache
          /\ cache[cacheKey(l, "celsius")].data.unit = "°C"
          /\ cache[cacheKey(l, "fahrenheit")].data.unit = "°F"

\* a refresh request has just been put to the gate
GateStep ==
    /\ last.op = "refresh"
    /\ last.step = "request"
    /\ last.location \in Locations

\* C8: a refresh request for (L, u) made before t + 30 s, where t is the instant
\* of a successful fetch for L in any unit (no clear() since), is rejected as
\* RateLimited; a rejected request always has such a fetch for its own location,
\* so the fetches of other locations do not count.
C8_GateLocationScoped ==
    GateStep =>
        /\ (\E u \in Units :
               /\ cacheKey(last.location, u) \in DOMAIN stored
               /\ last.gateAt < stored[cacheKey(last.location, u)].data.fetchedAt
                                    + RATE_LIMIT)
               => (last.outcome = "rate_limited" /\ last.http = 429)
        /\ last.outcome = "rate_limited" =>
               \E u \in Units : cacheKey(last.location, u) \in DOMAIN stored

C8_Witness ==
    /\ GateStep
    /\ last.outcome = "rate_limited"
    /\ last.unit = "fahrenheit"
    /\ cacheKey(last.location, "fahrenheit") \notin DOMAIN stored
    /\ cacheKey(last.location, "celsius") \in DOMAIN stored

\* C9: a response whose Celsius temperature is below -90 or above 60 is a failed
\* fetch, and every snapshot held in the cache was built from a Celsius reading
\* in [-90, 60].
C9_PlausibilityGuard ==
    /\ (last.upstream = "ok" /\ ~last.temp_c.isNull /\ OutOfRange(last.temp_c))
           => last.source # "fetch"
    /\ \A k \in DOMAIN cache :
           (k \in DOMAIN stored /\ stored[k].data = cache[k].data) =>
               /\ ~stored[k].temp_c.isNull
               /\ stored[k].temp_c.v >= MIN_TEMP_C * TempScale
               /\ stored[k].temp_c.v <= MAX_TEMP_C * TempScale

\* C10: right after a sweep at instant now the cache holds no entry with
\* expiresAt < now; every entry with expiresAt >= now is still there, unchanged;
\* the last-refresh map is untouched.
C10_SweepCorrectness ==
    [][last'.op = "sweep" =>
          /\ \A k \in DOMAIN cache' : ~(cache'[k].expiresAt < now')
          /\ \A k \in DOMAIN cache :
                 cache[k].expiresAt >= now' => (k \in DOMAIN cache' /\ cache'[k] = cache[k])
          /\ DOMAIN cache' \subseteq DOMAIN cache
          /\ lastRefreshTimes' = lastRefreshTimes]_vars

C10_Witness ==
    /\ last.op = "sweep"
    /\ \E k \in DOMAIN stored : k \notin DOMAIN cache /\ stored[k].at + TTL < now
    /\ \E k \in DOMAIN cache : cache[k].expiresAt >= now

\* the key of the handler that ran in the step
StepKey == cacheKey(last'.location, last'.unit)

\* C11: a handler's get(key) at instant t removes the entry and returns absent when
\* t > expiresAt; when t <= expiresAt it returns the stored snapshot and leaves
\* the map as it was; the entries of the other keys and the last-refresh map are
\* unchanged in both cases.
C11_LazyExpiryOnRead ==
    [][last'.lookup # "none" =>
          /\ StepKey \in DOMAIN cache =>
                 IF last'.lookupAt > cache[StepKey].expiresAt
                 THEN /\ StepKey \notin DOMAIN cache'
                      /\ last'.lookup = "miss"
                      /\ last'.source \notin {"hit", "fallback"}
                 ELSE /\ last'.lookup = "hit"
                      /\ [last'.data EXCEPT !.status = "online"] = cache[StepKey].data
                      /\ cache' = cache
          /\ StepKey \notin DOMAIN cache => (last'.lookup = "miss" /\ cache' = cache)
          /\ \A k \in (DOMAIN cache \cup DOMAIN cache') \ {StepKey} :
                 /\ k \in DOMAIN cache
                 /\ k \in DOMAIN cache'
                 /\ cache'[k] = cache[k]
          /\ lastRefreshTimes' = lastRefreshTimes]_vars

C11_Witness ==
    /\ last.lookup = "miss"
    /\ last.evicted
    /\ LastKey \in DOMAIN stored
    /\ LastKey \notin DOMAIN cache

\* C12 as stated: a refresh request that passes the gate issues an upstream call,
\* live entry or not; when the call succeeds at instant t the entry of the key is
\* the new snapshot with status online, fetchedAt = t and expiresAt = t + 15 min,
\* and lastRefresh(location) = t.
C12_Original ==
    /\ (/\ last.op = "refresh"
        /\ last.step = "request"
        /\ last.outcome \notin {"validation_error", "rate_limited"})
           => (last.outcome = "pending" /\ last.lookup = "none")
    /\ (last.op = "refresh" /\ last.source = "fetch") =>
           LET t == last.data.fetchedAt
           IN  /\ LastKey \in DOMAIN cache
               /\ cache[LastKey].data = last.data
               /\ last.data.status = "online"
               /\ cache[LastKey].expiresAt = t + TTL
               /\ last.location \in DOMAIN lastRefreshTimes
               /\ lastRefreshTimes[last.location] = t

\* C12, amended: with the API key configured, a refresh request that passes the
\* gate issues an upstream call without reading the cache; when the call succeeds
\* the entry of the key is the new snapshot, status online, and fetchedAt,
\* expiresAt - 15 min and lastRefresh(location) are three successive readings of
\* the clock, t1 <= t2 <= t3, the last of them the instant of the response.
C12_RefreshWritesThrough ==
    /\ (/\ last.op = "refresh"
        /\ last.step = "request"
        /\ last.outcome \notin {"validation_error", "rate_limited"}
        /\ apiKey)
           => (last.outcome = "pending" /\ last.lookup = "none")
    /\ (last.op = "refresh" /\ last.source = "fetch") =>
           /\ LastKey \in DOMAIN cache
           /\ cache[LastKey].data = last.data
           /\ last.data.status = "online"
           /\ last.data.fetchedAt <= cache[LastKey].expiresAt - TTL
           /\ last.location \in DOMAIN lastRefreshTimes
           /\ cache[LastKey].expiresAt - TTL <= lastRefreshTimes[last.location]
           /\ lastRefreshTimes[last.location] = last.at
           /\ last.at = now
           /\ last.at - last.data.fetchedAt <= MaxDrift

C12_Witness ==
    /\ last.op = "refresh"
    /\ last.source = "fetch"
    /\ last.data.fetchedAt >= T0 + RATE_LIMIT
    /\ cache[LastKey].expiresAt = last.data.fetchedAt + TTL
    /\ lastRefreshTimes[last.location] > last.data.fetchedAt

\* C13: an entry can be both present in the cache and older than 1 h: a
\* getCurrentWeather for a key whose last stored snapshot (no clear() since) is
\* older than 1 h is served from the cache, without a fetch, with status outdated.
C13_OutdatedServedFromCache ==
    (/\ last.op = "get"
     /\ last.step = "request"
     /\ LastKey \in DOMAIN stored
     /\ last.lookupAt - stored[LastKey].data.fetchedAt > STALE_THRESHOLD)
        => (last.source = "hit" /\ last.data.status = "outdated")

\* C14: lastRefresh(L) is set, to the instant of recording, exactly by a
\* successful fetch for L (from a getCurrentWeather miss or a refresh, any unit),
\* which leaves the other locations as they were; hits, rate-limited requests,
\* failed fetches, lazy expiry and the sweep leave the map unchanged; only
\* clear() removes anything from it.
C14_GateStateOnlyOnSuccess ==
    [][/\ last'.source = "fetch" =>
              /\ last'.location \in DOMAIN lastRefreshTimes'
              /\ lastRefreshTimes'[last'.location] = last'.at
              /\ now <= last'.at
              /\ last'.at <= now'
              /\ DOMAIN lastRefreshTimes' = DOMAIN lastRefreshTimes \cup {last'.location}
              /\ \A l \in DOMAIN lastRefreshTimes \ {last'.location} :
                     lastRefreshTimes'[l] = lastRefreshTimes[l]
       /\ last'.op = "clear" => lastRefreshTimes' = EmptyMap
       /\ (last'.source # "fetch" /\ last'.op # "clear") =>
              lastRefreshTimes' = lastRefreshTimes]_vars

C14_Witness ==
    /\ last.source = "fetch"
    /\ last.op = "get"
    /\ lastRefreshTimes[last.location] = last.at
    /\ \E l \in DOMAIN lastRefreshTimes : lastRefreshTimes[l] < last.at

\* C15: on the same requests, upstream outcomes and instants, every handler gets
\* the same answer (snapshot fields, status, or none: a miss, which goes to the
\* upstream API or ends in an error) whether the cleanup timer fires at any
\* instants or never does.
C15_ReadPathIgnoresSweep == twinObs.same

C15_Witness ==
    /\ twinObs.swept
    /\ twinObs.same
    /\ last.lookup = "miss"
    /\ last.outcome = "pending"
    /\ LastKey \in DOMAIN stored

\* C16: a snapshot is returned with status online only if the most recent fetch
\* attempt for its key succeeded and the snapshot is at most 1 h old; when the
\* most recent fetch attempt for the key failed, the data returned for the key is
\* labelled offline or outdated, never online.
C16_StatusFollowsLastFetch ==
    /\ (last.outcome = "ok" /\ last.data.status = "online") =>
           /\ LastKey \in DOMAIN attempt
           /\ attempt[LastKey] = "ok"
           /\ last.at - last.data.fetchedAt <= STALE_THRESHOLD
    /\ (last.outcome = "ok" /\ LastKey \in DOMAIN attempt
            /\ attempt[LastKey] = "failed") =>
           last.data.status \in {"offline", "outdated"}

\* the getCurrentWeather request of the step, as it waits for its upstream call
StepGet == [op |-> "get", location |-> last'.location, unit |-> last'.unit]

\* C17: a getCurrentWeather that misses issues its own upstream call, also when
\* a call for the same key is already in flight; when such a call succeeds its
\* caller receives the snapshot built in that completion from that call's
\* reading, and this snapshot becomes the one entry of the key, whatever
\* another call stored there before.
C17_NoCoalescing ==
    [][/\ (last'.op = "get" /\ last'.step = "request" /\ last'.outcome = "pending") =>
              CopiesIn(StepGet, inflight') = CopiesIn(StepGet, inflight) + 1
       /\ (last'.op = "get" /\ last'.source = "fetch") =>
              /\ CopiesIn(StepGet, inflight') = CopiesIn(StepGet, inflight) - 1
              /\ DOMAIN cache' = DOMAIN cache \cup {StepKey}
              /\ cache'[StepKey].data = last'.data
              /\ last'.data.fetchedAt >= now
              /\ last'.data.fetchedAt <= now'
              /\ last'.data.temperature =
                     ToFixed1(IF last'.unit = "fahrenheit"
                              THEN celsiusToFahrenheit(ToNumber(last'.temp_c))
                              ELSE last'.temp_c.v)]_vars

C17_Witness ==
    /\ last.op = "get"
    /\ last.source = "fetch"
    /\ BagIn([op |-> "get", location |-> last.location, unit |-> last.unit], inflight)
    /\ cache[LastKey].data = last.data

\* C18: after every step every snapshot held in the cache has status online; a
\* hit or a fallback returns the stored snapshot with its label and leaves the
\* stored snapshot, status and all other fields, and its expiry as they were.
C18_StoredStatusNeverRewritten ==
    [][/\ \A k \in DOMAIN cache' : cache'[k].data.status = "online"
       /\ last'.source \in {"hit", "fallback"} =>
              /\ StepKey \in DOMAIN cache
              /\ StepKey \in DOMAIN cache'
              /\ cache'[StepKey] = cache[StepKey]
              /\ last'.data = [cache[StepKey].data EXCEPT !.status = last'.data.status]]_vars

C18_Witness ==
    /\ last.source = "fallback"
    /\ last.data.status = "offline"
    /\ LastKey \in DOMAIN cache
    /\ cache[LastKey].data.status = "online"
    /\ cache[LastKey].data.fetchedAt = last.data.fetchedAt

\* C19: while no API key is configured no upstream call is in flight, the cache
\* and the last-refresh map are empty, and every fetch attempt (a
\* getCurrentWeather miss, a refresh that passed the gate) has ended at once in
\* an upstream error, status 502, with no snapshot.
C19_MissingApiKey ==
    ~apiKey =>
        /\ inflight = EmptyBag
        /\ cache = EmptyMap
        /\ lastRefreshTimes = EmptyMap
        /\ (/\ last.op \in {"get", "refresh"}
            /\ last.outcome \notin {"validation_error", "rate_limited"}) =>
               /\ last.step = "request"
               /\ last.upstream = "no_api_key"
               /\ last.outcome = "upstream_error"
               /\ last.http = ErrorStatus("WEATHER_API_ERROR")
               /\ last.http >= 500
               /\ last.data = NoData

C19_Witness ==
    /\ ~apiKey
    /\ last.op = "refresh"
    /\ last.upstream = "no_api_key"
    /\ last.outcome = "upstream_error"
    /\ nreq = MaxReq

\* the location of a cache key
KeyLocation(k) == CHOOSE l \in Locations : \E u \in Units : cacheKey(l, u) = k

\* C20 as stated: for every entry (L, u) of the cache, lastRefresh(L) is present
\* and >= entry.fetchedAt, and entry.expiresAt = entry.fetchedAt + 15 min.
C20_Original ==
    \A k \in DOMAIN cache :
        /\ KeyLocation(k) \in DOMAIN lastRefreshTimes
        /\ lastRefreshTimes[KeyLocation(k)] >= cache[k].data.fetchedAt
        /\ cache[k].expiresAt = cache[k].data.fetchedAt + TTL

\* C20, amended: for every entry (L, u) of the cache, lastRefresh(L) is present,
\* entry.expiresAt - 15 min is the reading of the clock at set(), not before
\* entry.fetchedAt, and lastRefresh(L) is not before that reading.
C20_MapsLinked ==
    \A k \in DOMAIN cache :
        /\ KeyLocation(k) \in DOMAIN lastRefreshTimes
        /\ cache[k].expiresAt - TTL >= cache[k].data.fetchedAt
        /\ cache[k].expiresAt - TTL <= cache[k].data.fetchedAt + MaxDrift
        /\ lastRefreshTimes[KeyLocation(k)] >= cache[k].expiresAt - TTL
        /\ lastRefreshTimes[KeyLocation(k)] <= now

C20_Witness ==
    /\ last.op = "sweep"
    /\ \E k \in DOMAIN cache : cache[k].expiresAt > cache[k].data.fetchedAt + TTL
    /\ \E k \in DOMAIN cache :
           lastRefreshTimes[KeyLocation(k)] >= cache[k].data.fetchedAt + RATE_LIMIT

====
